---------------------------- MODULE Spec2Model ----------------------------
(***************************************************************************)
(* A model of the SVSM vsock subsystem (kernel/src/vsock):                 *)
(*   - VirtIOVsockDriver, the transport that multiplexes every flow over   *)
(*     one device object guarded by one SpinLock (virtio_vsock.rs);        *)
(*   - VsockDriver::get_first_free_port, the local port allocator, and     *)
(*     the VSOCK_DEVICE registry filled by initialize_vsock (mod.rs,       *)
(*     virtio_vsock.rs).                                                   *)
(* The protocol engine behind the lock (VsockConnectionManager) and the    *)
(* peers are the environment.                                              *)
(***************************************************************************)
EXTENDS Integers, Sequences, FiniteSets

(* ------------------------------ bounds -------------------------------- *)
\* Concurrent callers of the transport.
NumCallers == 2
\* Largest destination buffer handed to recv().
MaxBuf == 2
\* Bytes the peers may send over the whole run (one byte per packet).
MaxPeerBytes == 3
\* Engine calls that may fail for a reason the connection table does not
\* explain (a queue or device error).
MaxFaults == 1

\* Slots in the MMIO slot list.
MaxSlots == 4
\* get_first_free_port calls over the whole run.
MaxAllocCalls == 2
\* Stream operations made in a run.
MaxStreamOps == 4

Procs == 1..NumCallers
\* Each caller owns one connection quad (remote_cid, local_port, remote_port),
\* named by the caller's number.
Flows == Procs
FlowOf(p) == p

(* ---------------------------- constants -------------------------------- *)
\* Ports below 1024 are reserved.
VSOCK_MIN_PORT == 1024
\* Number of maximum retries to get a local free port.
MAX_RETRIES == 5

VARIABLES
    pc,              \* where each caller stands in its current operation
    buffer_len,      \* recv: buffer.len()
    total_received,  \* recv: the running count
    woke,            \* connect: the flow of the event that ended the last wait
    last,            \* the call that returned last: operation and result
    dev_lock,        \* the SpinLock around the device: its holder, 0 when free
    connections,     \* the engine's connection table
    peer,            \* whether the peer has accepted the flow
    avail,           \* bytes buffered in the engine per flow
    events,          \* the device's receive queue, oldest first
    peer_bytes,      \* bytes the peers may still send
    faults,          \* engine failures still to come
    credit_pending,  \* per flow: device recvs done less credit updates issued
    VSOCK_DEVICE,    \* the registry cell: 0 while uninitialised, else its driver
    first_free_port, \* the registered driver's port cursor (a u32)
    slots,           \* the MMIO slot list handed to initialize_vsock
    devices,         \* device objects VirtIOVsockDriver::new has built so far
    init_ret,        \* what the last initialize_vsock call returned
    candidate_port,  \* get_first_free_port: the candidate of the attempt
    attempts,        \* get_first_free_port: cursor advances made by the call
    queries,         \* get_first_free_port: is_local_port_used queries made
    alloc_calls,     \* get_first_free_port calls still to come
    alast,           \* the get_first_free_port call that returned last
    issued,          \* the candidates fetch_update has handed out so far
    stream_status,   \* per stream handle: "none", "Connected" or "Closed"
    shut_called,     \* per stream: shutdown() has been called on it
    dropped,         \* per stream: the handle has gone out of scope
    forced_closes,   \* per stream: times the transport's forced close ran
    slast,           \* the stream operation that returned last
    stream_ops       \* stream operations still to come

vars == <<pc, buffer_len, total_received, woke, last, dev_lock,
          connections, peer, avail, events, peer_bytes, faults,
          VSOCK_DEVICE, first_free_port, slots, devices, init_ret,
          candidate_port, attempts, queries, alloc_calls, alast,
          credit_pending, issued,
          stream_status, shut_called, dropped, forced_closes, slast, stream_ops>>

callerVars == <<pc, buffer_len, total_received, woke, last>>
engineVars == <<connections, peer, avail, events, peer_bytes, faults>>
registryVars == <<VSOCK_DEVICE, slots, devices, init_ret>>
allocVars == <<first_free_port, candidate_port, attempts, queries, alloc_calls, alast,
              issued>>
streamVars == <<stream_status, shut_called, dropped, forced_closes, slast, stream_ops>>
transportVars == <<buffer_len, total_received, woke, last, dev_lock, engineVars,
                  credit_pending>>

Min(a, b) == IF a < b THEN a ELSE b

\* What a call leaves behind when it returns: the operation, the result, and
\* for recv the number of bytes collected.
Return(p, o, r, n, v) == [op |-> o, ret |-> r, val |-> v]
NoCall == Return(0, "none", "none", 0, 0)

(* --------------------------- error translation -------------------------- *)
\* The engine's errors this model distinguishes; "Other" is any error the
\* translation table does not name.
EngineErrors == {"ConnectionExists", "NotConnected", "PeerSocketShutdown", "Other"}
\* A failure the connection table does not explain.
InjectedErrors == {"Other"}

\* impl From<virtio_drivers::Error> for VsockError
VsockErrorFrom(e) ==
    CASE e = "ConnectionExists" -> "ConnectionExists"
      [] e = "NotConnected" -> "NotConnected"
      [] e = "PeerSocketShutdown" -> "PeerSocketShutdown"
      [] OTHER -> "DriverError"

(* ------------------------------ the engine ------------------------------ *)
\* dev.connect: a quad already in the table is refused.
DevConnect(f) ==
    IF connections[f] # "none" THEN "ConnectionExists" ELSE "Ok"

\* The table after the engine has processed event e (poll's update).
ConnectionsAfter(e) ==
    IF e[1] = "Connected" /\ connections[e[2]] = "connecting"
    THEN [connections EXCEPT ![e[2]] = "established"]
    ELSE connections

\* The buffered bytes after the engine has processed event e.
AvailAfter(e) ==
    IF e[1] = "Received" /\ connections[e[2]] # "none"
    THEN [avail EXCEPT ![e[2]] = @ + 1]
    ELSE avail

\* dev.is_connection_established on table c.
DevIsEstablished(c, f) ==
    IF c[f] = "none" THEN "NotConnected"
    ELSE IF c[f] = "established" THEN "true" ELSE "false"

\* dev.recv drains what is buffered into the slice it is given.
DevRecv(f, slice) == Min(avail[f], slice)

\* The local port of a quad.
LocalPort(f) == VSOCK_MIN_PORT + f - 1

\* dev.is_local_port_used: some connection of the table is bound to the port.
DevIsLocalPortUsed(port) ==
    \E f \in Flows : connections[f] # "none" /\ LocalPort(f) = port

(* --------------------------- environment steps -------------------------- *)
\* The peer answers a connection request: a Connected event is queued.
PeerAccept(f) ==
    /\ connections[f] = "connecting"
    /\ ~peer[f]
    /\ peer' = [peer EXCEPT ![f] = TRUE]
    /\ events' = Append(events, <<"Connected", f>>)
    /\ UNCHANGED <<callerVars, dev_lock, connections, avail, peer_bytes, faults>>
    /\ UNCHANGED <<registryVars, allocVars, credit_pending, streamVars>>

\* The peer sends one byte: a Received event is queued.
PeerSend(f) ==
    /\ peer[f]
    /\ peer_bytes > 0
    /\ peer_bytes' = peer_bytes - 1
    /\ events' = Append(events, <<"Received", f>>)
    /\ UNCHANGED <<callerVars, dev_lock, connections, peer, avail, faults>>
    /\ UNCHANGED <<registryVars, allocVars, credit_pending, streamVars>>

(* ------------------------------- connect -------------------------------- *)
\* Line 95's `?`: where connect goes after the request was submitted.
ConnectAfterSubmitLoops(r) == "c_lock"
ConnectAfterSubmit(r) == IF r = "Ok" THEN "c_lock" ELSE "idle"

\* Lines 93-95: locked_do(dev.connect), the lock taken and released inside.
ConnectCall(p) ==
    /\ pc[p] = "idle"
    /\ dev_lock = 0
    /\ \E r \in {DevConnect(FlowOf(p))} \cup
                (IF faults > 0 /\ connections[FlowOf(p)] = "none"
                 THEN InjectedErrors ELSE {}) :
        /\ pc' = [pc EXCEPT ![p] = ConnectAfterSubmit(r)]
        /\ last' = IF ConnectAfterSubmit(r) = "idle"
                   THEN Return(p, "connect", VsockErrorFrom(r), 0, 0) ELSE last
        /\ connections' = IF r = "Ok"
                          THEN [connections EXCEPT ![FlowOf(p)] = "connecting"]
                          ELSE connections
        /\ faults' = IF r \in {"Ok", "ConnectionExists"} THEN faults ELSE faults - 1
    /\ UNCHANGED <<buffer_len, total_received, woke, dev_lock, peer, avail,
                   events, peer_bytes>>
    /\ UNCHANGED <<registryVars, allocVars, credit_pending, streamVars>>

\* Line 102: self.device.lock().
ConnectLock(p) ==
    /\ pc[p] = "c_lock"
    /\ dev_lock = 0
    /\ dev_lock' = p
    /\ pc' = [pc EXCEPT ![p] = "c_wait"]
    /\ UNCHANGED <<buffer_len, total_received, woke, last, engineVars>>
    /\ UNCHANGED <<registryVars, allocVars, credit_pending, streamVars>>

\* Lines 109-115: the status of the caller's own flow decides the return.
ConnectStatusAnyWake(c, f) == "true"
ConnectStatus(c, f) == DevIsEstablished(c, f)

\* Lines 108-116: wait_for_event returns an event, the caller's own flow is
\* checked, and the guard is dropped at the end of the iteration.
ConnectWake(p) ==
    /\ pc[p] = "c_wait"
    /\ dev_lock = p
    /\ events # <<>>
    /\ LET e == Head(events)
           c == ConnectionsAfter(e)
           status == ConnectStatus(c, FlowOf(p))
       IN /\ connections' = c
          /\ avail' = AvailAfter(e)
          /\ events' = Tail(events)
          /\ woke' = [woke EXCEPT ![p] = IF status = "false" THEN e[2] ELSE 0]
          /\ pc' = [pc EXCEPT ![p] = IF status = "false" THEN "c_lock" ELSE "idle"]
          /\ last' = CASE status = "true" -> Return(p, "connect", "Ok", 0, 0)
                       [] status = "false" -> last
                       [] OTHER -> Return(p, "connect", VsockErrorFrom(status), 0, 0)
    /\ dev_lock' = 0
    /\ UNCHANGED <<buffer_len, total_received, peer, peer_bytes, faults>>
    /\ UNCHANGED <<registryVars, allocVars, credit_pending, streamVars>>

\* Line 108: wait_for_event fails and `?` returns the translated error.
ConnectWaitFail(p) ==
    /\ pc[p] = "c_wait"
    /\ dev_lock = p
    /\ faults > 0
    /\ \E e \in InjectedErrors :
        last' = Return(p, "connect", VsockErrorFrom(e), 0, 0)
    /\ faults' = faults - 1
    /\ pc' = [pc EXCEPT ![p] = "idle"]
    /\ woke' = [woke EXCEPT ![p] = 0]
    /\ dev_lock' = 0
    /\ UNCHANGED <<buffer_len, total_received, connections, peer, avail,
                   events, peer_bytes>>
    /\ UNCHANGED <<registryVars, allocVars, credit_pending, streamVars>>

(* --------------------------------- recv --------------------------------- *)
\* Line 138: the slice handed to dev.recv, &mut buffer[total_received..].
RecvSliceWholeBuffer(len, total) == len
RecvSlice(len, total) == len - total

\* Lines 141-147: a device recv error keeps the bytes collected so far.
RecvErrorResult(total, e) == IF total > 0 THEN "Ok" ELSE VsockErrorFrom(e)

\* Line 154: whether the loop stops after a successful device recv.
RecvStopsOnAnyData(creditFailed, total, len) == creditFailed \/ total = len \/ total > 0
RecvStops(creditFailed, total, len) == creditFailed \/ total = len

\* Lines 141-153: the credit updates issued after a device recv: one after a
\* successful recv, none on the error path, which returns first.
CreditUpdatesUnlessFull(recvOk, total, len) == IF recvOk /\ total # len THEN 1 ELSE 0
CreditUpdatesAfterRecv(recvOk, total, len) == IF recvOk THEN 1 ELSE 0

\* Line 126: recv() is entered; nothing is locked yet.
RecvCall(p, n) ==
    /\ pc[p] = "idle"
    /\ pc' = [pc EXCEPT ![p] = "r_lock"]
    /\ buffer_len' = [buffer_len EXCEPT ![p] = n]
    /\ total_received' = [total_received EXCEPT ![p] = 0]
    /\ UNCHANGED <<woke, last, dev_lock, engineVars>>
    /\ UNCHANGED <<registryVars, allocVars, credit_pending, streamVars>>

\* Lines 136-147: the lock is taken and dev.recv fails.
RecvDeviceError(p) ==
    /\ pc[p] = "r_lock"
    /\ dev_lock = 0
    /\ \E e \in (IF connections[FlowOf(p)] = "none" THEN {"NotConnected"} ELSE {}) \cup
                (IF faults > 0 /\ connections[FlowOf(p)] # "none"
                 THEN InjectedErrors ELSE {}) :
        /\ last' = Return(p, "recv", RecvErrorResult(total_received[p], e),
                          buffer_len[p], total_received[p])
        /\ faults' = IF e = "NotConnected" THEN faults ELSE faults - 1
    /\ credit_pending' = [credit_pending EXCEPT ![FlowOf(p)] =
            @ - CreditUpdatesAfterRecv(FALSE, total_received[p], buffer_len[p])]
    /\ pc' = [pc EXCEPT ![p] = "idle"]
    /\ buffer_len' = [buffer_len EXCEPT ![p] = 0]
    /\ total_received' = [total_received EXCEPT ![p] = 0]
    /\ UNCHANGED <<woke, dev_lock, connections, peer, avail, events, peer_bytes>>
    /\ UNCHANGED <<registryVars, allocVars, streamVars>>

\* Lines 136-156: the lock is taken, dev.recv succeeds, the credit update is
\* issued; the call returns (dropping the guard) or goes on to wait with the
\* guard still alive.
RecvStep(p) ==
    /\ pc[p] = "r_lock"
    /\ dev_lock = 0
    /\ connections[FlowOf(p)] # "none"
    /\ LET received == DevRecv(FlowOf(p), RecvSlice(buffer_len[p], total_received[p]))
           total == total_received[p] + received
       IN /\ avail' = [avail EXCEPT ![FlowOf(p)] = @ - received]
          /\ credit_pending' = [credit_pending EXCEPT ![FlowOf(p)] =
                  @ + 1 - CreditUpdatesAfterRecv(TRUE, total, buffer_len[p])]
          /\ \E creditFailed \in {FALSE} \cup (IF faults > 0 THEN {TRUE} ELSE {}) :
              /\ faults' = IF creditFailed THEN faults - 1 ELSE faults
              /\ IF RecvStops(creditFailed, total, buffer_len[p])
                 THEN /\ pc' = [pc EXCEPT ![p] = "idle"]
                      /\ last' = Return(p, "recv", "Ok", buffer_len[p], total)
                      /\ buffer_len' = [buffer_len EXCEPT ![p] = 0]
                      /\ total_received' = [total_received EXCEPT ![p] = 0]
                      /\ dev_lock' = 0
                 ELSE /\ pc' = [pc EXCEPT ![p] = "r_wait"]
                      /\ total_received' = [total_received EXCEPT ![p] = total]
                      /\ dev_lock' = p
                      /\ UNCHANGED <<last, buffer_len>>
    /\ UNCHANGED <<woke, connections, peer, events, peer_bytes>>
    /\ UNCHANGED <<registryVars, allocVars, streamVars>>

\* Lines 163-164: wait_for_event returns an event; the guard is dropped at
\* the end of the iteration.
RecvWake(p) ==
    /\ pc[p] = "r_wait"
    /\ dev_lock = p
    /\ events # <<>>
    /\ connections' = ConnectionsAfter(Head(events))
    /\ avail' = AvailAfter(Head(events))
    /\ events' = Tail(events)
    /\ pc' = [pc EXCEPT ![p] = "r_lock"]
    /\ dev_lock' = 0
    /\ UNCHANGED <<buffer_len, total_received, woke, last, peer, peer_bytes, faults>>
    /\ UNCHANGED <<registryVars, allocVars, credit_pending, streamVars>>

\* Line 163's `?`: what recv returns when wait_for_event fails.
RecvWaitErrorResult(total, e) == VsockErrorFrom(e)

\* Line 163: wait_for_event fails.
RecvWaitFail(p) ==
    /\ pc[p] = "r_wait"
    /\ dev_lock = p
    /\ faults > 0
    /\ \E e \in InjectedErrors :
        last' = Return(p, "recv", RecvWaitErrorResult(total_received[p], e),
                       buffer_len[p], total_received[p])
    /\ faults' = faults - 1
    /\ pc' = [pc EXCEPT ![p] = "idle"]
    /\ buffer_len' = [buffer_len EXCEPT ![p] = 0]
    /\ total_received' = [total_received EXCEPT ![p] = 0]
    /\ dev_lock' = 0
    /\ UNCHANGED <<woke, connections, peer, avail, events, peer_bytes>>
    /\ UNCHANGED <<registryVars, allocVars, credit_pending, streamVars>>

(* ------------------------ send, is_local_port_used ---------------------- *)
\* Lines 176-185: one locked call forwards the whole buffer.
Send(p) ==
    /\ pc[p] = "idle"
    /\ dev_lock = 0
    /\ \E r \in (IF connections[FlowOf(p)] = "none" THEN {"NotConnected"} ELSE {"Ok"}) \cup
                (IF faults > 0 /\ connections[FlowOf(p)] # "none"
                 THEN InjectedErrors ELSE {}) :
        /\ last' = Return(p, "send", IF r = "Ok" THEN "Ok" ELSE VsockErrorFrom(r), 0, 0)
        /\ faults' = IF r \in {"Ok", "NotConnected"} THEN faults ELSE faults - 1
    /\ UNCHANGED <<pc, buffer_len, total_received, woke, dev_lock, connections,
                   peer, avail, events, peer_bytes>>
    /\ UNCHANGED <<registryVars, allocVars, credit_pending, streamVars>>

\* Lines 213-217: a locked read of the bound-port table.
IsLocalPortUsed(p, f) ==
    /\ pc[p] = "idle"
    /\ dev_lock = 0
    /\ last' = Return(p, "is_local_port_used",
                      IF DevIsLocalPortUsed(LocalPort(f)) THEN "used" ELSE "free", 0, 0)
    /\ UNCHANGED <<pc, buffer_len, total_received, woke, dev_lock, engineVars>>
    /\ UNCHANGED <<registryVars, allocVars, credit_pending, streamVars>>

(* ------------------------------ u32 ports -------------------------------- *)
\* A u32 as two 16-bit limbs <<high, low>>, so that the cursor keeps its
\* width up to u32::MAX.
Limb == 2^16
U32(n) == <<n \div Limb, n % Limb>>
U32_MAX == <<Limb - 1, Limb - 1>>
U32Geq(a, b) == a[1] > b[1] \/ (a[1] = b[1] /\ a[2] >= b[2])
\* a + 1 in 32 bits.
U32Succ(a) ==
    IF a[2] = Limb - 1 THEN <<(a[1] + 1) % Limb, 0>> ELSE <<a[1], a[2] + 1>>
\* a - 1 in 32 bits.
U32Pred(a) ==
    IF a[2] = 0 THEN <<(a[1] + Limb - 1) % Limb, Limb - 1>> ELSE <<a[1], a[2] - 1>>

(* ------------------------------ the registry ----------------------------- *)
SlotTypes == {"Socket", "Block", "Console"}
SlotLists == UNION {[1..n -> SlotTypes] : n \in 0..MaxSlots}

\* MmioSlots::pop_slot(Socket): the position of the first socket-typed slot,
\* 0 when there is none.
FirstSocket(sl) ==
    IF \E i \in 1..Len(sl) : sl[i] = "Socket"
    THEN CHOOSE i \in 1..Len(sl) : sl[i] = "Socket" /\ \A j \in 1..(i - 1) : sl[j] # "Socket"
    ELSE 0
\* The list without the slot at position i.
WithoutSlot(sl, i) == [j \in 1..(Len(sl) - 1) |-> IF j < i THEN sl[j] ELSE sl[j + 1]]

\* ImmutAfterInitCell::init: an initialised cell refuses a second value.
CellInit(cell, v) ==
    IF cell = 0 THEN [cell |-> v, res |-> "Ok"] ELSE [cell |-> cell, res |-> "AlreadyInit"]

\* Line 69: the driver is stored with VSOCK_DEVICE.init(driver).
RegistrySet(cell, v) == [cell |-> v, res |-> "Ok"]
RegistryInit(cell, v) == CellInit(cell, v)

\* Lines 58-71 of initialize_vsock: the slot is popped and the driver built
\* before the registry is asked whether it is still empty.
InitializeVsock ==
    /\ IF FirstSocket(slots) = 0
       THEN /\ init_ret' = "Ok"
            /\ UNCHANGED <<VSOCK_DEVICE, slots, devices, first_free_port>>
       ELSE /\ slots' = WithoutSlot(slots, FirstSocket(slots))
            /\ \E built \in BOOLEAN :
                IF ~built
                THEN /\ init_ret' = "InvalidDevice"
                     /\ UNCHANGED <<VSOCK_DEVICE, devices, first_free_port>>
                ELSE LET r == RegistryInit(VSOCK_DEVICE, devices + 1)
                     IN /\ devices' = devices + 1
                        /\ VSOCK_DEVICE' = r.cell
                        /\ first_free_port' = IF r.cell = VSOCK_DEVICE
                                              THEN first_free_port
                                              ELSE U32(VSOCK_MIN_PORT)
                        /\ init_ret' = r.res
    /\ UNCHANGED <<pc, transportVars, streamVars, candidate_port, attempts, queries,
                   alloc_calls, alast, issued>>

(* --------------------------- get_first_free_port ------------------------- *)
\* The closure with the comparison made against u32::MAX itself.
AdvancePortWrapsAtMax(port) ==
    IF U32Geq(port, U32_MAX) THEN U32(VSOCK_MIN_PORT) ELSE U32Succ(port)
\* Lines 42-46: the closure handed to fetch_update.
AdvancePort(port) ==
    IF U32Geq(port, U32Pred(U32_MAX)) THEN U32(VSOCK_MIN_PORT) ELSE U32Succ(port)

\* Lines 40-50: fetch_update stores the advanced value and hands back the
\* value the cursor held before.
FetchUpdateReturnsNew(cursor) ==
    [candidate |-> AdvancePort(cursor), cursor |-> AdvancePort(cursor)]
FetchUpdateNoStore(cursor) == [candidate |-> cursor, cursor |-> cursor]
FetchUpdate(cursor) == [candidate |-> cursor, cursor |-> AdvancePort(cursor)]

\* Line 38: for _ in 0..MAX_RETRIES.
LoopContinuesInclusive(n) == n <= MAX_RETRIES
LoopContinues(n) == n < MAX_RETRIES

\* Line 52: a candidate is returned when the transport says it is not used.
CandidateAcceptedWhenUsed(answer) == answer = "used"
CandidateAccepted(answer) == answer = "free"

\* What a get_first_free_port call leaves behind when it returns.
AllocReturn(r, port, queried, answer, n, q) ==
    [ret |-> r, port |-> port, queried |-> queried, answer |-> answer,
     attempts |-> n, queries |-> q]
NoAlloc == AllocReturn("none", U32(0), U32(0), "none", 0, 0)

\* Line 37: get_first_free_port is entered on the registered driver.
AllocCall(p) ==
    /\ pc[p] = "idle"
    /\ VSOCK_DEVICE # 0
    /\ alloc_calls > 0
    /\ alloc_calls' = alloc_calls - 1
    /\ pc' = [pc EXCEPT ![p] = "a_fetch"]
    /\ attempts' = [attempts EXCEPT ![p] = 0]
    /\ queries' = [queries EXCEPT ![p] = 0]
    /\ UNCHANGED <<transportVars, streamVars, registryVars, first_free_port, candidate_port, alast,
                   issued>>

\* Lines 38-50: one more attempt, its candidate taken from the cursor in one
\* atomic read-modify-write.
AllocFetch(p) ==
    /\ pc[p] = "a_fetch"
    /\ LoopContinues(attempts[p])
    /\ candidate_port' = [candidate_port EXCEPT ![p] = FetchUpdate(first_free_port).candidate]
    /\ first_free_port' = FetchUpdate(first_free_port).cursor
    /\ issued' = issued \cup {FetchUpdate(first_free_port).candidate}
    /\ attempts' = [attempts EXCEPT ![p] = @ + 1]
    /\ pc' = [pc EXCEPT ![p] = "a_check"]
    /\ UNCHANGED <<transportVars, streamVars, registryVars, queries, alloc_calls, alast>>

\* Lines 52-54: the transport is asked about the candidate, which takes the
\* device lock (virtio_vsock.rs line 214); its answer is Ok(true), Ok(false)
\* or an error that `?` returns.
AllocCheck(p) ==
    /\ pc[p] = "a_check"
    /\ dev_lock = 0
    /\ \E answer \in {"used", "free", "error"} :
        IF answer = "error" \/ CandidateAccepted(answer)
        THEN /\ alast' = AllocReturn(IF answer = "error" THEN "Err" ELSE "Ok",
                                     IF answer = "error" THEN U32(0) ELSE candidate_port[p],
                                     candidate_port[p], answer,
                                     attempts[p], queries[p] + 1)
             /\ pc' = [pc EXCEPT ![p] = "idle"]
             /\ candidate_port' = [candidate_port EXCEPT ![p] = U32(0)]
             /\ attempts' = [attempts EXCEPT ![p] = 0]
             /\ queries' = [queries EXCEPT ![p] = 0]
        ELSE /\ pc' = [pc EXCEPT ![p] = "a_fetch"]
             /\ queries' = [queries EXCEPT ![p] = @ + 1]
             /\ UNCHANGED <<alast, candidate_port, attempts>>
    /\ UNCHANGED <<transportVars, streamVars, registryVars, first_free_port, alloc_calls, issued>>

\* Line 57: every attempt found its candidate used.
AllocExhausted(p) ==
    /\ pc[p] = "a_fetch"
    /\ ~LoopContinues(attempts[p])
    /\ alast' = AllocReturn("NoPortsAvailable", U32(0), candidate_port[p], "used",
                            attempts[p], queries[p])
    /\ pc' = [pc EXCEPT ![p] = "idle"]
    /\ candidate_port' = [candidate_port EXCEPT ![p] = U32(0)]
    /\ attempts' = [attempts EXCEPT ![p] = 0]
    /\ queries' = [queries EXCEPT ![p] = 0]
    /\ UNCHANGED <<transportVars, streamVars, registryVars, first_free_port, alloc_calls, issued>>

(* ------------------------------- shutdown ------------------------------- *)
\* Lines 188-211: shutdown(.., force) picks the engine's forced close or its
\* orderly shutdown and translates the engine's error.
TransportShutdownIgnoresForce(force, devResult) ==
    [path |-> "shutdown",
     ret |-> IF devResult = "Ok" THEN "Ok" ELSE VsockErrorFrom(devResult)]
TransportShutdown(force, devResult) ==
    [path |-> IF force THEN "force_close" ELSE "shutdown",
     ret |-> IF devResult = "Ok" THEN "Ok" ELSE VsockErrorFrom(devResult)]

(* ------------------------------ VsockStream ------------------------------ *)
\* One stream handle per caller. The transport is the capability the stream
\* is given; here it answers each call with any result it may give.
Streams == Procs
TransportResults == {"Ok"} \cup EngineErrors
RecvResults == [ok : {TRUE}, n : 0..MaxBuf] \cup [ok : {FALSE}, n : {0}]

\* What a stream operation leaves behind: the handle, the operation, the
\* status it found, the result, the byte count, and what the transport call
\* it made returned ("nocall" when it made none).
StreamReturn(s, o, was, r, n, t) ==
    [who |-> s, op |-> o, was |-> was, ret |-> r, n |-> n, transport |-> t]
NoStreamCall == StreamReturn(0, "none", "none", "none", 0, "nocall")

\* read(): a Closed stream fails with RecvFailed without calling the
\* transport; otherwise Transport::recv is called and its error becomes a
\* 0-byte success.
StreamReadIgnoresStatus(status, recv) ==
    IF recv.ok THEN [ret |-> "Ok", n |-> recv.n, transport |-> "Ok"]
    ELSE [ret |-> "Ok", n |-> 0, transport |-> "Err"]
StreamReadPropagates(status, recv) ==
    IF status = "Closed" THEN [ret |-> "RecvFailed", n |-> 0, transport |-> "nocall"]
    ELSE IF recv.ok THEN [ret |-> "Ok", n |-> recv.n, transport |-> "Ok"]
    ELSE [ret |-> "RecvFailed", n |-> 0, transport |-> "Err"]
StreamReadResult(status, recv) ==
    IF status = "Closed" THEN [ret |-> "RecvFailed", n |-> 0, transport |-> "nocall"]
    ELSE IF recv.ok THEN [ret |-> "Ok", n |-> recv.n, transport |-> "Ok"]
    ELSE [ret |-> "Ok", n |-> 0, transport |-> "Err"]

\* shutdown(): the status is set to Closed before the transport is called,
\* whatever the transport then answers.
StatusAfterShutdownRollsBack(status, ret) == IF ret = "Ok" THEN "Closed" ELSE "Connected"
StatusAfterShutdown(status, ret) == "Closed"

\* connect(): Failed when the registry is unconfigured, ConnectFailed when
\* Transport::connect fails, else a new handle in state Connected.
StreamConnect(s) ==
    /\ stream_status[s] = "none"
    /\ stream_ops > 0
    /\ stream_ops' = stream_ops - 1
    /\ IF VSOCK_DEVICE = 0
       THEN /\ slast' = StreamReturn(s, "connect", "none", "Failed", 0, "nocall")
            /\ UNCHANGED stream_status
       ELSE \E r \in {"Ok", "Err"} :
            /\ slast' = StreamReturn(s, "connect", "none",
                                     IF r = "Ok" THEN "Ok" ELSE "ConnectFailed", 0, r)
            /\ stream_status' = [stream_status EXCEPT ![s] =
                                    IF r = "Ok" THEN "Connected" ELSE "none"]
    /\ UNCHANGED <<shut_called, dropped, forced_closes>>
    /\ UNCHANGED <<pc, transportVars, registryVars, allocVars>>

\* read(buf).
StreamRead(s) ==
    /\ stream_status[s] # "none" /\ ~dropped[s]
    /\ stream_ops > 0
    /\ stream_ops' = stream_ops - 1
    /\ \E recv \in RecvResults :
        LET r == StreamReadResult(stream_status[s], recv)
        IN slast' = StreamReturn(s, "read", stream_status[s], r.ret, r.n, r.transport)
    /\ UNCHANGED <<stream_status, shut_called, dropped, forced_closes>>
    /\ UNCHANGED <<pc, transportVars, registryVars, allocVars>>

\* write(buf): Transport::send is called; its failure maps to SendFailed.
StreamWrite(s) ==
    /\ stream_status[s] # "none" /\ ~dropped[s]
    /\ stream_ops > 0
    /\ stream_ops' = stream_ops - 1
    /\ \E r \in {"Ok", "Err"} :
        slast' = StreamReturn(s, "write", stream_status[s],
                              IF r = "Ok" THEN "Ok" ELSE "SendFailed", 0, r)
    /\ UNCHANGED <<stream_status, shut_called, dropped, forced_closes>>
    /\ UNCHANGED <<pc, transportVars, registryVars, allocVars>>

\* shutdown(): Closed first, then the transport's orderly shutdown; its
\* failure maps to Failed.
StreamShutdown(s) ==
    /\ stream_status[s] # "none" /\ ~dropped[s]
    /\ stream_ops > 0
    /\ stream_ops' = stream_ops - 1
    /\ shut_called' = [shut_called EXCEPT ![s] = TRUE]
    /\ \E devResult \in TransportResults :
        LET t == TransportShutdown(FALSE, devResult)
        IN /\ stream_status' = [stream_status EXCEPT ![s] =
                                   StatusAfterShutdown(stream_status[s], t.ret)]
           /\ forced_closes' = [forced_closes EXCEPT ![s] =
                                   @ + (IF t.path = "force_close" THEN 1 ELSE 0)]
           /\ slast' = StreamReturn(s, "shutdown", stream_status[s],
                                    IF t.ret = "Ok" THEN "Ok" ELSE "Failed", 0, t.ret)
    /\ UNCHANGED dropped
    /\ UNCHANGED <<pc, transportVars, registryVars, allocVars>>

\* drop: nothing for a Closed stream; otherwise the transport's forced close,
\* whose result is discarded.
StreamDrop(s) ==
    /\ stream_status[s] # "none" /\ ~dropped[s]
    /\ dropped' = [dropped EXCEPT ![s] = TRUE]
    /\ IF stream_status[s] = "Closed"
       THEN /\ slast' = StreamReturn(s, "drop", stream_status[s], "unit", 0, "nocall")
            /\ UNCHANGED forced_closes
       ELSE \E devResult \in TransportResults :
            LET t == TransportShutdown(TRUE, devResult)
            IN /\ forced_closes' = [forced_closes EXCEPT ![s] =
                                       @ + (IF t.path = "force_close" THEN 1 ELSE 0)]
               /\ slast' = StreamReturn(s, "drop", stream_status[s], "unit", 0, t.ret)
    /\ UNCHANGED <<stream_status, shut_called, stream_ops>>
    /\ UNCHANGED <<pc, transportVars, registryVars, allocVars>>

\* No caller is inside an operation.
CallersIdle ==
    /\ pc = [p \in Procs |-> "idle"]
    /\ buffer_len = [p \in Procs |-> 0]
    /\ total_received = [p \in Procs |-> 0]
    /\ woke = [p \in Procs |-> 0]
    /\ last = NoCall
    /\ candidate_port = [p \in Procs |-> U32(0)]
    /\ attempts = [p \in Procs |-> 0]
    /\ queries = [p \in Procs |-> 0]
    /\ alast = NoAlloc
    /\ issued = {}
    /\ stream_status = [p \in Procs |-> "none"]
    /\ shut_called = [p \in Procs |-> FALSE]
    /\ dropped = [p \in Procs |-> FALSE]
    /\ forced_closes = [p \in Procs |-> 0]
    /\ slast = NoStreamCall
    /\ stream_ops = MaxStreamOps

\* The device as VirtIOVsockDriver::new leaves it.
DeviceFresh ==
    /\ dev_lock = 0
    /\ connections = [f \in Flows |-> "none"]
    /\ peer = [f \in Flows |-> FALSE]
    /\ avail = [f \in Flows |-> 0]
    /\ events = <<>>
    /\ peer_bytes = MaxPeerBytes
    /\ faults = MaxFaults
    /\ credit_pending = [f \in Flows |-> 0]

\* initialize_vsock has registered the one driver, with its cursor at the
\* minimum port.
Registered ==
    /\ VSOCK_DEVICE = 1
    /\ devices = 1
    /\ slots = <<>>
    /\ init_ret = "Ok"
    /\ first_free_port = U32(VSOCK_MIN_PORT)
    /\ alloc_calls = MaxAllocCalls

Init == CallersIdle /\ DeviceFresh /\ Registered

\* Some flows are already connected: every flow is absent from the table or
\* established, its peer having accepted it; nothing is queued or locked.
InitConnected ==
    /\ CallersIdle
    /\ Registered
    /\ dev_lock = 0
    /\ connections \in [Flows -> {"none", "established"}]
    /\ peer = [f \in Flows |-> connections[f] = "established"]
    /\ avail = [f \in Flows |-> 0]
    /\ events = <<>>
    /\ peer_bytes = MaxPeerBytes
    /\ faults = MaxFaults
    /\ credit_pending = [f \in Flows |-> 0]

\* Cursor values a long-running allocator holds: the first ones, and the last
\* ones before it wraps.
Cursors == {U32(VSOCK_MIN_PORT), U32Pred(U32Pred(U32_MAX))}

\* The driver was registered earlier and its cursor has moved on.
InitAlloc ==
    /\ CallersIdle
    /\ DeviceFresh
    /\ slots = <<>>
    /\ alloc_calls = MaxAllocCalls
    /\ VSOCK_DEVICE = 1
    /\ devices = 1
    /\ init_ret = "Ok"
    /\ first_free_port \in Cursors

\* As InitAlloc, or with the last caller inside connect(): its request is
\* submitted and it blocks in wait_for_event holding the device lock.
InitAllocBusy ==
    \/ InitAlloc
    \/ /\ candidate_port = [p \in Procs |-> U32(0)]
       /\ attempts = [p \in Procs |-> 0]
       /\ queries = [p \in Procs |-> 0]
       /\ alast = NoAlloc
       /\ issued = {}
       /\ alloc_calls = MaxAllocCalls
       /\ first_free_port \in Cursors
       /\ VSOCK_DEVICE = 1 /\ devices = 1 /\ init_ret = "Ok" /\ slots = <<>>
       /\ pc = [p \in Procs |-> IF p = NumCallers THEN "c_wait" ELSE "idle"]
       /\ dev_lock = NumCallers
       /\ connections = [f \in Flows |-> IF f = FlowOf(NumCallers) THEN "connecting" ELSE "none"]
       /\ buffer_len = [p \in Procs |-> 0]
       /\ total_received = [p \in Procs |-> 0]
       /\ woke = [p \in Procs |-> 0]
       /\ last = NoCall
       /\ peer = [f \in Flows |-> FALSE]
       /\ avail = [f \in Flows |-> 0]
       /\ events = <<>>
       /\ peer_bytes = MaxPeerBytes
       /\ faults = MaxFaults
       /\ credit_pending = [f \in Flows |-> 0]
       /\ stream_status = [p \in Procs |-> "none"]
       /\ shut_called = [p \in Procs |-> FALSE]
       /\ dropped = [p \in Procs |-> FALSE]
       /\ forced_closes = [p \in Procs |-> 0]
       /\ slast = NoStreamCall
       /\ stream_ops = MaxStreamOps

\* Boot: the registry is empty and the slot list is any list.
InitBoot ==
    /\ CallersIdle
    /\ DeviceFresh
    /\ slots \in SlotLists
    /\ alloc_calls = MaxAllocCalls
    /\ VSOCK_DEVICE = 0
    /\ devices = 0
    /\ init_ret = "none"
    /\ first_free_port = U32(0)

\* Boot, or any later moment: the driver was registered earlier and its
\* cursor has moved on.
InitRegistry ==
    /\ CallersIdle
    /\ DeviceFresh
    /\ slots \in SlotLists
    /\ alloc_calls = MaxAllocCalls
    /\ \/ /\ VSOCK_DEVICE = 0
          /\ devices = 0
          /\ init_ret = "none"
          /\ first_free_port = U32(0)
       \/ /\ VSOCK_DEVICE = 1
          /\ devices = 1
          /\ init_ret = "Ok"
          /\ first_free_port \in Cursors

\* Callers that connect, send and query ports.
NextConnect ==
    \/ \E f \in Flows : PeerAccept(f)
    \/ \E p \in Procs : ConnectCall(p)
    \/ \E p \in Procs : ConnectLock(p)
    \/ \E p \in Procs : ConnectWake(p)
    \/ \E p \in Procs : ConnectWaitFail(p)
    \/ \E p \in Procs : Send(p)
    \/ \E p \in Procs, f \in Flows : IsLocalPortUsed(p, f)

\* Callers that receive, and peers that send.
NextRecv ==
    \/ \E f \in Flows : PeerSend(f)
    \/ \E p \in Procs, n \in 0..MaxBuf : RecvCall(p, n)
    \/ \E p \in Procs : RecvDeviceError(p)
    \/ \E p \in Procs : RecvStep(p)
    \/ \E p \in Procs : RecvWake(p)
    \/ \E p \in Procs : RecvWaitFail(p)

Next == NextConnect \/ NextRecv

\* Port allocation by concurrent callers.
NextAlloc ==
    \/ \E p \in Procs : AllocCall(p)
    \/ \E p \in Procs : AllocFetch(p)
    \/ \E p \in Procs : AllocCheck(p)
    \/ \E p \in Procs : AllocExhausted(p)

\* Initialisation, at boot and again later.
NextRegistry == InitializeVsock

\* The whole transport, from construction.
Spec == Init /\ [][Next]_vars
\* The connection handshake alone.
SpecConnect == Init /\ [][NextConnect]_vars
\* The receive path over flows connected earlier.
SpecRecv == InitConnected /\ [][NextRecv]_vars
\* The port allocator of the registered driver.
SpecAlloc == InitAlloc /\ [][NextAlloc]_vars
\* Port allocation with the device lock free, or held by a caller that
\* blocks in connect()'s wait_for_event.
SpecAllocBusy == InitAllocBusy /\ [][NextAlloc]_vars
\* The stream handles of the callers, over a registry that is configured
\* or not.
InitStream ==
    /\ CallersIdle
    /\ DeviceFresh
    /\ slots = <<>>
    /\ alloc_calls = MaxAllocCalls
    /\ \/ /\ VSOCK_DEVICE = 0 /\ devices = 0 /\ init_ret = "none"
          /\ first_free_port = U32(0)
       \/ /\ VSOCK_DEVICE = 1 /\ devices = 1 /\ init_ret = "Ok"
          /\ first_free_port = U32(VSOCK_MIN_PORT)
NextStream ==
    \/ \E s \in Streams : StreamConnect(s)
    \/ \E s \in Streams : StreamRead(s)
    \/ \E s \in Streams : StreamWrite(s)
    \/ \E s \in Streams : StreamShutdown(s)
    \/ \E s \in Streams : StreamDrop(s)
SpecStream == InitStream /\ [][NextStream]_vars
\* The registry, at boot or later.
SpecRegistry == InitRegistry /\ [][NextRegistry]_vars
\* The registry from boot.
SpecBoot == InitBoot /\ [][NextRegistry]_vars
\* The handshake with callers that keep running: a caller spinning on the lock
\* gets it if it is free again and again, a polling caller picks up a queued
\* event, and a peer answers a request.
FairSpecConnect ==
    /\ SpecConnect
    /\ \A p \in Procs : SF_vars(ConnectLock(p)) /\ WF_vars(ConnectWake(p))
    /\ \A f \in Flows : WF_vars(PeerAccept(f))

(* ------------------------------- claims --------------------------------- *)
\* A caller blocked in wait_for_event: it is in the wait and the device has
\* no event for it.
Blocked(p) == pc[p] \in {"c_wait", "r_wait"} /\ events = <<>>

\* C1: whenever some caller of connect or recv is blocked waiting for a
\* device event, the device lock is free.
C1_LockFreeWhileBlocked == \A p \in Procs : Blocked(p) => dev_lock = 0

\* C2: once the device has established the flow of a caller that is inside
\* connect(), and no device-level error occurs, that connect() eventually
\* returns Ok.
C2_ConnectEventuallyReturns ==
    \A p \in Procs :
        (pc[p] \in {"c_lock", "c_wait"} /\ connections[FlowOf(p)] = "established")
            ~> ((pc[p] = "idle" /\ last.op = "connect" /\ last.ret = "Ok")
                \/ faults < MaxFaults)

C4_RecvKeepsProgress == (last.op = "recv" /\ last.val > 0) => last.ret = "Ok"

\* C5: the running count of recv() stays within 0..N at every step, and the
\* count a recv() returns is at most N, for every buffer length N.
C5_TotalWithinBuffer ==
    [][\A p \in Procs :
        /\ 0 <= total_received[p] /\ total_received[p] <= buffer_len[p]
        /\ 0 <= total_received'[p] /\ total_received'[p] <= buffer_len'[p]
        /\ (pc[p] \in {"r_lock", "r_wait"} /\ pc'[p] = "idle" /\ last'.ret = "Ok")
              => (0 <= last'.val /\ last'.val <= buffer_len[p])]_vars

\* A recv() returned a short count as success, and another filled its buffer.
C5_Witness ==
    /\ last.op = "recv" /\ last.ret = "Ok" /\ last.val = MaxBuf
    /\ \E p \in Procs : pc[p] = "r_wait" /\ total_received[p] > 0

\* C6: a port returned by get_first_free_port is at least 1024 and is the
\* candidate the transport reported as not used in that attempt.
C6_ReturnedPortIsFreeCandidate ==
    /\ \A p \in Procs : pc[p] = "a_check" => U32Geq(candidate_port[p], U32(1024))
    /\ alast.ret = "Ok" =>
        /\ U32Geq(alast.port, U32(1024))
        /\ alast.port = alast.queried
        /\ alast.answer = "free"

\* The cursor wrapped during the call and the minimum port was returned.
C6_Witness == alast.ret = "Ok" /\ alast.port = U32(1024) /\ alast.attempts = 3

\* C7: a call whose candidates are all reported used makes exactly 5 cursor
\* advances and 5 queries, then fails with NoPortsAvailable; it never makes
\* a sixth attempt.
C7_ExactlyFiveAttempts ==
    /\ \A p \in Procs :
        /\ attempts[p] <= 5 /\ queries[p] <= 5
        /\ (pc[p] = "a_fetch" /\ queries[p] = 5) =>
               (~ENABLED AllocFetch(p) /\ ENABLED AllocExhausted(p))
        /\ (pc[p] = "a_fetch" /\ queries[p] < 5) => ~ENABLED AllocExhausted(p)
    /\ alast.ret = "NoPortsAvailable" => (alast.attempts = 5 /\ alast.queries = 5)

\* A call ran out of attempts.
C7_Witness == alast.ret = "NoPortsAvailable"

\* C8: connect() for a quad the device already knows fails when the request
\* is submitted: it never enters the wait loop, and a connect() that returns
\* from the submission returns ConnectionExists or DriverError, never Ok.
C8_SecondConnectFails ==
    [][/\ \A p \in Procs :
            (pc[p] = "idle" /\ connections[FlowOf(p)] # "none")
                => pc'[p] \notin {"c_lock", "c_wait"}
       /\ (pc' = pc /\ last' # last /\ last'.op = "connect")
            => last'.ret \in {"ConnectionExists", "DriverError"}]_vars

\* A second connect() for an established quad was refused.
C8_Witness ==
    /\ last.op = "connect" /\ last.ret = "ConnectionExists"
    /\ \E p \in Procs : pc[p] = "idle" /\ connections[FlowOf(p)] = "established"

\* C9: once the registry holds a driver, no initialize_vsock call replaces or
\* clears it, and none resets its port cursor.
C9_RegistrySetOnce ==
    [][VSOCK_DEVICE # 0 =>
        (VSOCK_DEVICE' = VSOCK_DEVICE /\ first_free_port' = first_free_port)]_vars

\* A later initialize_vsock was refused while the cursor had moved on.
C9_Witness ==
    /\ VSOCK_DEVICE = 1 /\ init_ret = "AlreadyInit"
    /\ first_free_port # U32(VSOCK_MIN_PORT)

\* C10: an initialize_vsock call made while the registry holds a driver
\* consumes no slot and builds no device.
C10_ReinitBuildsNothing ==
    [][VSOCK_DEVICE # 0 => (slots' = slots /\ devices' = devices)]_vars

\* C11: initialize_vsock returns an error whenever the registry already
\* holds a driver, whatever the slot list of the later call contains.
C11_ReinitReturnsError ==
    [][(VSOCK_DEVICE # 0 /\ <<slots, devices, init_ret>>' # <<slots, devices, init_ret>>)
           => init_ret' # "Ok"]_vars

\* C12: a stream's status only ever moves from Connected to Closed; no
\* operation, failed or not, moves a Closed stream back to Connected.
C12_ClosedIsAbsorbing ==
    [][\A s \in Streams :
        /\ stream_status[s] = "Closed" => stream_status'[s] = "Closed"
        /\ stream_status[s] = "Connected" => stream_status'[s] \in {"Connected", "Closed"}]_vars

\* A shutdown() on an already Closed stream failed in the transport.
C12_Witness ==
    /\ slast.op = "shutdown" /\ slast.was = "Closed" /\ slast.ret = "Failed"
    /\ stream_status[slast.who] = "Closed"

\* C13: a read() on a stream whose shutdown() has been called, whatever that
\* shutdown returned, fails with RecvFailed and makes no transport call.
C13_ReadAfterShutdownFails ==
    (slast.op = "read" /\ shut_called[slast.who]) =>
        (slast.ret = "RecvFailed" /\ slast.transport = "nocall" /\ slast.n = 0)

\* A read() was made on a stream that had been shut down.
C13_Witness == slast.op = "read" /\ shut_called[slast.who] /\ slast.was = "Closed"

\* C14: the transport's forced close has run once for a stream dropped while
\* Connected and never for any other stream, and drop returns nothing,
\* whatever the forced close answered.
C14_ForcedCloseOnceAtDrop ==
    /\ \A s \in Streams :
          forced_closes[s] = IF dropped[s] /\ ~shut_called[s] THEN 1 ELSE 0
    /\ slast.op = "drop" => slast.ret = "unit"

\* One stream was dropped after its shutdown(), another while Connected, and
\* the forced close of that one failed.
C14_Witness ==
    /\ slast.op = "drop" /\ slast.was = "Connected" /\ slast.transport \notin {"Ok", "nocall"}
    /\ \E s \in Streams : dropped[s] /\ shut_called[s] /\ forced_closes[s] = 0
    /\ forced_closes[slast.who] = 1

\* C15: a read() on a Connected stream returns success: a transport error
\* becomes a 0-byte result, and the stream is still Connected.
C15_ReadNeverFailsWhileConnected ==
    (slast.op = "read" /\ slast.was = "Connected") =>
        /\ slast.ret = "Ok"
        /\ slast.transport = "Err" => slast.n = 0
        /\ stream_status[slast.who] = "Connected"

\* Transport::recv failed under a read() on a Connected stream.
C15_Witness == slast.op = "read" /\ slast.was = "Connected" /\ slast.transport = "Err"

\* C16: in each attempt the candidate handed to is_local_port_used is the
\* value the cursor holds after the read-modify-write step.
C16_CandidateIsAdvancedValue ==
    [][\A p \in Procs : (pc[p] = "a_fetch" /\ pc'[p] = "a_check")
           => candidate_port'[p] = first_free_port']_vars

\* C16 as amended: in each attempt the candidate is the value the cursor held
\* before the read-modify-write step, the cursor afterwards holds the
\* advanced value (1024 when the old value was at or past u32::MAX - 1,
\* otherwise old value + 1), and that candidate is the port queried.
C16_CandidateIsPreviousValue ==
    [][\A p \in Procs :
        /\ (pc[p] = "a_fetch" /\ pc'[p] = "a_check") =>
              /\ candidate_port'[p] = first_free_port
              /\ first_free_port' =
                    IF U32Geq(first_free_port, <<Limb - 1, Limb - 2>>)
                    THEN <<0, 1024>> ELSE U32Succ(first_free_port)
        /\ (pc[p] = "a_check" /\ pc'[p] = "idle" /\ alast'.ret = "Ok")
              => (alast'.queried = candidate_port[p] /\ alast'.port = candidate_port[p])]_vars

\* The first attempt after boot: candidate 1024, cursor 1025.
C16_Witness ==
    \E p \in Procs : /\ pc[p] = "a_check"
                     /\ candidate_port[p] = <<0, 1024>>
                     /\ first_free_port = <<0, 1025>>

\* C17: recv() returns Ok(n) with n below the buffer length only in a step
\* where a device call fails; with no failure it returns only once the
\* buffer is full.
C17_ShortReadOnlyOnError ==
    [][\A p \in Procs :
        (pc[p] \in {"r_lock", "r_wait"} /\ pc'[p] = "idle"
            /\ last'.ret = "Ok" /\ last'.val < buffer_len[p]) => faults' < faults]_vars

\* A recv() filled its whole buffer, waiting in between, with no failure at
\* all; another caller is still waiting with a partly filled buffer.
C17_Witness ==
    /\ last.op = "recv" /\ last.ret = "Ok" /\ last.val = MaxBuf /\ faults = MaxFaults
    /\ \E p \in Procs : pc[p] = "r_wait" /\ total_received[p] > 0
                           /\ total_received[p] < buffer_len[p]

\* C18: whenever recv() waits or returns, every successful device recv of
\* each flow has had exactly one credit update, and a failed device recv
\* none: the two counts agree at every step boundary.
C18_OneCreditUpdatePerRecv == \A f \in Flows : credit_pending[f] = 0

\* A device recv succeeded and the caller waits; a recv has also returned
\* through the device error path.
C18_Witness ==
    /\ \E p \in Procs : pc[p] = "r_wait" /\ total_received[p] > 0
    /\ last.op = "recv" /\ faults < MaxFaults

\* C19: the port cursor stays within [1024, 2^32 - 2]; every attempt changes
\* it, to 1024 exactly when the old value is at least 2^32 - 2 and to the
\* old value plus one otherwise; no other step changes it.
C19_CursorInRange ==
    [][/\ first_free_port'[1] \in 0..(Limb - 1) /\ first_free_port'[2] \in 0..(Limb - 1)
       /\ U32Geq(first_free_port', <<0, 1024>>)
       /\ first_free_port' # <<Limb - 1, Limb - 1>>
       /\ IF \E p \in Procs : pc[p] = "a_fetch" /\ pc'[p] = "a_check"
          THEN /\ first_free_port' # first_free_port
               /\ (first_free_port' = <<0, 1024>>)
                     <=> U32Geq(first_free_port, <<Limb - 1, Limb - 2>>)
               /\ first_free_port' # <<0, 1024>>
                     => first_free_port' = U32Succ(first_free_port)
          ELSE first_free_port' = first_free_port]_vars

\* The cursor has wrapped: 2^32 - 2 was handed out and the cursor is 1024.
C19_Witness == first_free_port = <<0, 1024>> /\ <<Limb - 1, Limb - 2>> \in issued

\* C20: no attempt obtains a candidate handed out before, two callers never
\* hold the same candidate, and the cursor advance neither needs nor touches
\* the device lock.
C20_CandidatesDistinct ==
    [][/\ \A p \in Procs : (pc[p] = "a_fetch" /\ pc'[p] = "a_check")
             => (candidate_port'[p] \notin issued /\ dev_lock' = dev_lock)
       /\ \A p \in Procs : (pc[p] = "a_fetch" /\ attempts[p] < 5) => ENABLED AllocFetch(p)
       /\ \A p, q \in Procs : (p # q /\ pc'[p] = "a_check" /\ pc'[q] = "a_check")
             => candidate_port'[p] # candidate_port'[q]]_vars

\* A caller has fetched its candidate while another caller holds the device
\* lock inside connect().
C20_Witness ==
    /\ dev_lock # 0 /\ pc[dev_lock] = "c_wait"
    /\ \E p \in Procs : pc[p] = "a_check" /\ candidate_port[p] \in issued
=============================================================================
